---- MODULE Spec2Model ----
(***************************************************************************)
(* Vertex selection and proportional deformation engine of the mesh        *)
(* editor: per-mesh selection state (SelectableVertices), the drag         *)
(* controller (MoveSelected), the deformation helpers (vertex-edit.ts) and *)
(* the box selection tool (BoxSelect).                                     *)
(*                                                                         *)
(* Numbers.  The program computes on IEEE floats.  The model computes on   *)
(* fixed-point integers: the integer n stands for n / Unit, so Unit is     *)
(* 1.0.  Products of two fixed-point numbers are divided by Unit and       *)
(* rounded down.                                                           *)
(*                                                                         *)
(* Scheduling.  Every handler below is a browser event handler.  The       *)
(* React state updates a handler makes (setSelectedIndices, setEnabled,    *)
(* setProportionalEnabled, setRadiusWorld) are rendered, and the effects   *)
(* that depend on them run, before the next event is dispatched; an action *)
(* is the handler together with that render and those effects.             *)
(***************************************************************************)
EXTENDS Integers, Sequences, FiniteSets, TLC

(***************************************************************************)
(* Bounds of the model.                                                    *)
(***************************************************************************)
NumVerts == 3          \* vertices of every mesh (pos.count)
MaxDrags == 1          \* drag sessions started in one behaviour
MaxClicks == 2         \* vertex clicks in one behaviour
MaxWheel == 3          \* scroll ticks in one behaviour
MaxRegs == 4           \* register calls in one behaviour

Unit == 10 * 10 * 10   \* fixed-point 1.0

Meshes == {1, 2}       \* the meshes of the loaded scene, one entry each
Verts == 0 .. (NumVerts - 1)

\* pivot offsets the gizmo can report, relative to the pivot at pointer down
DragOffsets == { <<Unit, 0, 0>>, <<0, 0 - Unit, 0>>, <<0, 0, 0>> }

Falloffs == {"smooth", "gaussian", "sharp"}

(***************************************************************************)
(* Program constants.                                                      *)
(***************************************************************************)
DefaultRadius == 250   \* proportionalRadius = 0.25
BoxThreshold == 2      \* the threshold of onUp
Sharpness == 3         \* const sharpness = 3
Epsilon == 1           \* 1e-8, here the smallest positive number
RadiusMin == 1         \* Math.max(next, 0.001)
RadiusMax == 1000 * Unit  \* Math.min(..., 1000)

(***************************************************************************)
(* Nullable references: useRef<T | null>.                                  *)
(***************************************************************************)
NullRef == [null |-> TRUE]
Ref(v) == [null |-> FALSE, current |-> v]

(***************************************************************************)
(* Vectors (THREE.Vector3) and arithmetic.                                 *)
(***************************************************************************)
Zero3 == <<0, 0, 0>>
VAdd(a, b) == <<a[1] + b[1], a[2] + b[2], a[3] + b[3]>>
VSub(a, b) == <<a[1] - b[1], a[2] - b[2], a[3] - b[3]>>
VMul(a, k) == <<a[1] * k, a[2] * k, a[3] * k>>
VDiv(a, k) == <<a[1] \div k, a[2] \div k, a[3] \div k>>
\* multiplication of a vector by a fixed-point weight
VWeight(a, w) == <<(a[1] * w) \div Unit, (a[2] * w) \div Unit, (a[3] * w) \div Unit>>

Max(a, b) == IF a >= b THEN a ELSE b
Min(a, b) == IF a <= b THEN a ELSE b

\* Math.sqrt on non-negative integers, rounded down (bisection)
RECURSIVE SqrtBetween(_, _, _)
SqrtBetween(n, lo, hi) ==
  IF hi - lo <= 1 THEN lo
  ELSE LET mid == (lo + hi) \div 2
       IN IF mid * mid <= n THEN SqrtBetween(n, mid, hi)
                            ELSE SqrtBetween(n, lo, mid)
Sqrt(n) == SqrtBetween(n, 0, 46340)

\* membership in a number[] ; prev.includes(idx), selSet.has(i)
Includes(seq, x) == \E k \in 1 .. Len(seq) : seq[k] = x
\* prev.filter((x) => x !== idx)
Filter(seq, idx) == SelectSeq(seq, LAMBDA x : x /= idx)
AsSet(seq) == { seq[k] : k \in 1 .. Len(seq) }

\* the numbers of a set in increasing order
RECURSIVE SortedSeq(_)
SortedSeq(S) ==
  IF S = {} THEN <<>>
  ELSE LET m == CHOOSE x \in S : \A y \in S : x <= y
       IN <<m>> \o SortedSeq(S \ {m})

(***************************************************************************)
(* Map<K, V> (hooks/selection.tsx keeps one): the pairs in insertion       *)
(* order.                                                                  *)
(***************************************************************************)
MapHas(m, key) == \E k \in 1 .. Len(m) : m[k].key = key

\* variant: the pair is appended, whether or not the key is present
MapSet_Append(m, key, value) == Append(m, [key |-> key, value |-> value])

\* m.set(key, value): the value of a present key is replaced in place
MapSet(m, key, value) ==
  IF MapHas(m, key)
    THEN [k \in 1 .. Len(m) |->
            IF m[k].key = key THEN [key |-> key, value |-> value] ELSE m[k]]
    ELSE Append(m, [key |-> key, value |-> value])

\* m.delete(key)
MapDelete(m, key) == SelectSeq(m, LAMBDA pair : pair.key /= key)

\* Array.from(m.values())
MapValues(m) == [k \in 1 .. Len(m) |-> m[k].value]

\* the entry a SelectableVertices instance registers for mesh id; owner tells
\* the instances apart
PointsEntry(id, owner) == [id |-> id, owner |-> owner]

\* the registry after the SelectableVertices of the meshes DroppedModel keeps
\* (those whose geometry has a position attribute) have registered
RECURSIVE RegisterAll(_, _)
RegisterAll(m, ids) ==
  IF ids = <<>> THEN m
  ELSE RegisterAll(MapSet(m, Head(ids), PointsEntry(Head(ids), Head(ids))), Tail(ids))
DroppedModel(has) == RegisterAll(<<>>, SortedSeq({e \in DOMAIN has : has[e]}))

\* the closures the register calls that built registry m have returned
closuresOf(m) == { [id |-> m[k].key, owner |-> m[k].value.owner] : k \in 1 .. Len(m) }

(***************************************************************************)
(* The scene.  Mesh 1 is the unit tetrahedron corner with the identity     *)
(* world transform; mesh 2 is a smaller mesh whose world matrix scales by  *)
(* 1 / 2 and translates.  MeshInvScale(e) is the factor of the (uniform)   *)
(* inverse world matrix, MeshOffset(e) the translation of the world matrix.*)
(***************************************************************************)
MeshInvScale(e) == IF e = 1 THEN 1 ELSE 2
MeshOffset(e) == IF e = 1 THEN Zero3 ELSE <<Unit, 0, 0>>
MeshSpacing(e) == IF e = 1 THEN Unit ELSE 400

\* vertex i of the loaded geometry: the origin, then points on the axes
InitVertex(e, i) ==
  IF i = 0 THEN Zero3
  ELSE LET a == (i - 1) % 3
           m == MeshSpacing(e) * (((i - 1) \div 3) + 1)
       IN <<IF a = 0 THEN m ELSE 0, IF a = 1 THEN m ELSE 0, IF a = 2 THEN m ELSE 0>>
InitPositions(e) == [i \in Verts |-> InitVertex(e, i)]

\* p.applyMatrix4(matrixWorld): local point to world point
LocalToWorld(e, p) == VAdd(VDiv(p, MeshInvScale(e)), MeshOffset(e))
\* mesh.worldToLocal(p): world point to local point
WorldToLocal(e, p) == VMul(VSub(p, MeshOffset(e)), MeshInvScale(e))

(***************************************************************************)
(* helpers/vertex-edit.ts                                                  *)
(***************************************************************************)
\* world-space translation delta to the mesh's local-space delta: the 3x3
\* part of the inverse world matrix applied to the delta
computeDeltaLocal(e, deltaWorld) == VMul(deltaWorld, MeshInvScale(e))

\* variant: every vertex of the buffer is moved
applyNonProportionalMove_All(pos, start, selected, deltaLocal) ==
  [i \in Verts |-> VAdd(start[i], deltaLocal)]

\* variant: the delta is added to the current position
applyNonProportionalMove_Incremental(pos, start, selected, deltaLocal) ==
  [i \in Verts |-> IF Includes(selected, i) THEN VAdd(pos[i], deltaLocal)
                                           ELSE pos[i]]

applyNonProportionalMove(pos, start, selected, deltaLocal) ==
  [i \in Verts |-> IF Includes(selected, i) THEN VAdd(start[i], deltaLocal)
                                           ELSE pos[i]]

\* Math.exp(-y) for a fixed-point y >= 0: Taylor polynomial of exp(-y/8),
\* raised to the 8th power
ExpNeg(y) ==
  LET z == y \div 8
      z2 == (z * z) \div Unit
      e1 == Unit - z + (z * z) \div (2 * Unit) - (z2 * z) \div (6 * Unit)
                 + (z2 * z2) \div (24 * Unit)
      e2 == (e1 * e1) \div Unit
      e4 == (e2 * e2) \div Unit
  IN (e4 * e4) \div Unit

\* variant: the smooth curve is evaluated at t instead of 1 - t
falloffFn_Rising(kind, t) ==
  IF t <= 0 THEN Unit
  ELSE IF t >= Unit THEN 0
  ELSE IF kind = "sharp"
    THEN LET x == Unit - t
             x2 == (x * x) \div Unit
         IN (x2 * x2) \div Unit
  ELSE IF kind = "gaussian"
    THEN LET a == ExpNeg((Sharpness * ((t * t) \div Unit)))
             edge == ExpNeg(Sharpness * Unit)
         IN ((a - edge) * Unit) \div (Unit - edge)
  ELSE (t * t * (3 * Unit - 2 * t)) \div (Unit * Unit)

falloffFn(kind, t) ==
  IF t <= 0 THEN Unit
  ELSE IF t >= Unit THEN 0
  ELSE IF kind = "sharp"
    THEN LET x == Unit - t
             x2 == (x * x) \div Unit
         IN (x2 * x2) \div Unit
  ELSE IF kind = "gaussian"
    THEN LET a == ExpNeg((Sharpness * ((t * t) \div Unit)))
             edge == ExpNeg(Sharpness * Unit)
         IN ((a - edge) * Unit) \div (Unit - edge)
  ELSE LET x == Unit - t
       IN (x * x * (3 * Unit - 2 * x)) \div (Unit * Unit)

\* average world scale of the mesh: mean of the column norms of matrixWorld
ScaleAvg(e) == (3 * (Unit \div MeshInvScale(e))) \div 3
RadiusLocal(e, radiusWorld) == (radiusWorld * Unit) \div Max(ScaleAvg(e), Epsilon)

\* distance of a snapshot vertex to the local pivot
Distance(p, pivotLocal) ==
  LET v == VSub(p, pivotLocal)
  IN Sqrt(v[1] * v[1] + v[2] * v[2] + v[3] * v[3])

\* variant: the weight of a selected vertex depends on its distance as well
Weight_DistanceOnly(e, start, selected, pivotLocal, radiusWorld, falloff, i) ==
  LET radiusLocal == RadiusLocal(e, radiusWorld)
      d == Distance(start[i], pivotLocal)
  IN IF d < radiusLocal
       THEN falloffFn(falloff, (d * Unit) \div Max(radiusLocal, Epsilon))
       ELSE 0

\* variant: a vertex on the edge of the radius is inside it
Weight_Inclusive(e, start, selected, pivotLocal, radiusWorld, falloff, i) ==
  IF Includes(selected, i) THEN Unit
  ELSE LET radiusLocal == RadiusLocal(e, radiusWorld)
           d == Distance(start[i], pivotLocal)
       IN IF d <= radiusLocal
            THEN falloffFn(falloff, (d * Unit) \div Max(radiusLocal, Epsilon))
            ELSE 0

\* the weight of vertex i in a proportional move
Weight(e, start, selected, pivotLocal, radiusWorld, falloff, i) ==
  IF Includes(selected, i) THEN Unit
  ELSE LET radiusLocal == RadiusLocal(e, radiusWorld)
           d == Distance(start[i], pivotLocal)
       IN IF d < radiusLocal
            THEN falloffFn(falloff, (d * Unit) \div Max(radiusLocal, Epsilon))
            ELSE 0

applyProportionalMove(e, start, selected, pivotLocal, radiusWorld, falloff, deltaLocal) ==
  [i \in Verts |->
     VAdd(start[i],
          VWeight(deltaLocal,
                  Weight(e, start, selected, pivotLocal, radiusWorld, falloff, i)))]

(***************************************************************************)
(* BufferGeometry: the data derived from the position attribute.  The      *)
(* geometry is not indexed: vertices 3k, 3k + 1, 3k + 2 are a face.        *)
(***************************************************************************)
MinOf(S) == CHOOSE x \in S : \A y \in S : x <= y
MaxOf(S) == CHOOSE x \in S : \A y \in S : x >= y

\* geom.computeBoundingBox()
computeBoundingBox(pos) ==
  [min |-> [a \in 1 .. 3 |-> MinOf({pos[i][a] : i \in Verts})],
   max |-> [a \in 1 .. 3 |-> MaxOf({pos[i][a] : i \in Verts})]]

\* geom.computeBoundingSphere(): the centre of the box and the largest
\* distance of a vertex to it
computeBoundingSphere(pos) ==
  LET box == computeBoundingBox(pos)
      center == VDiv(VAdd(box.min, box.max), 2)
  IN [center |-> center,
      radius |-> MaxOf({Distance(pos[i], center) : i \in Verts})]

Cross(a, b) ==
  <<(a[2] * b[3] - a[3] * b[2]) \div Unit,
    (a[3] * b[1] - a[1] * b[3]) \div Unit,
    (a[1] * b[2] - a[2] * b[1]) \div Unit>>

\* Vector3.normalize()
Normalize(v) ==
  LET len == Sqrt(v[1] * v[1] + v[2] * v[2] + v[3] * v[3])
  IN IF len = 0 THEN Zero3
     ELSE <<(v[1] * Unit) \div len, (v[2] * Unit) \div len, (v[3] * Unit) \div len>>

\* geom.computeVertexNormals(): every vertex of a face gets the normalized
\* face normal (pC - pB) x (pA - pB); a vertex without a complete face gets
\* none
computeVertexNormals(pos) ==
  [i \in Verts |->
     LET a == 3 * (i \div 3)
     IN IF a + 2 >= NumVerts THEN Zero3
        ELSE Normalize(Cross(VSub(pos[a + 2], pos[a + 1]), VSub(pos[a], pos[a + 1])))]

\* variant: the derived data is computed before the buffer is written
recomputeInput_BeforeWrite(before, after) == before

\* the buffer the recomputations at the end of moveSelected read: they run
\* after applyNonProportionalMove / applyProportionalMove has written it
recomputeInput(before, after) == after

(***************************************************************************)
(* State.                                                                  *)
(***************************************************************************)
VARIABLES
  \* SelectableVertices, one per mesh
  selectedIndices,        \* useState<number[]>
  selectedRef,            \* useRef<number[]>, what getSelected() returns
  position,               \* the position attribute of the mesh geometry
  needsUpdate,            \* pos.needsUpdate has been set since load
  dragStartPositionsRef,  \* drag snapshot, or null
  dragPivotLocalRef,      \* pivot in local space, set by beginMove
  dragOptsRef,            \* options captured by beginMove, or null
  boundingBox,            \* geom.boundingBox once the editor has computed it
  boundingSphere,         \* geom.boundingSphere, likewise
  normals,                \* the normal attribute, likewise
  \* MoveSelected
  enabled,                \* the mode key is held
  proportionalEnabled,
  radiusWorld,
  falloff,                \* prop
  tcMounted,              \* TransformControls was rendered by the last render
  dragging,               \* TransformControls.dragging
  pivot,                  \* pivot.position (world)
  prevPivotWorld,
  dragStartPivotWorld,
  controlsEnabled,        \* controlsRef.current.enabled (camera controls)
  \* BoxSelect
  keyDownRef,
  startRef,
  boxStyle,               \* left, top, width, height of the rectangle element
  baseRectRef,
  overlayRect,            \* overlayRef.current.getBoundingClientRect()
  \* history of the behaviour
  lastOp,                 \* the handler that ran last
  lastDelta,              \* world delta of the last moveSelected fan-out
  selStable,              \* selection unchanged since the snapshot was taken
  moves,                  \* in this drag: 0 no move yet, 1 moves with one delta,
                          \* 2 moves with different deltas
  drags, clicks, wheelTicks, regs,
  \* the scene
  hasPosition,            \* geometry.attributes.position exists
  isSkinnedMesh,          \* mesh.isSkinnedMesh
  \* SelectionProvider
  mapRef,                 \* Map<string, PointsEntry>, in insertion order
  unregisterFns,          \* the closures register has returned that were not
                          \* called yet: the id each captured, and its owner
  \* applyProportionalMove, the weight of one unselected vertex
  falloffT,               \* d * rInv, the argument of falloffFn
  falloffW                \* w, what falloffFn returned for it

derivedVars == <<boundingBox, boundingSphere, normals>>
entryVars == <<selectedIndices, selectedRef, position, needsUpdate,
               dragStartPositionsRef, dragPivotLocalRef, dragOptsRef, derivedVars>>
selVars == <<selectedIndices, selectedRef>>
bufVars == <<position, needsUpdate, dragStartPositionsRef, dragPivotLocalRef,
             dragOptsRef, derivedVars>>
moveVars == <<enabled, proportionalEnabled, radiusWorld, falloff, tcMounted,
              dragging, pivot, prevPivotWorld, dragStartPivotWorld>>
boxVars == <<keyDownRef, startRef, boxStyle, baseRectRef, overlayRect>>
histVars == <<lastOp, lastDelta, selStable, moves, drags, clicks, wheelTicks, regs>>
sceneVars == <<hasPosition, isSkinnedMesh>>
regVars == <<mapRef, unregisterFns>>
fnVars == <<falloffT, falloffW>>
\* what only the wheel, the registry and the scene loader touch
restVars == <<wheelTicks, regs, sceneVars, regVars, fnVars>>
vars == <<entryVars, moveVars, controlsEnabled, boxVars, histVars, sceneVars, regVars,
         fnVars>>

(***************************************************************************)
(* SelectableVertices: the entry registered for mesh e.                    *)
(***************************************************************************)
getSelected(e) == selectedRef[e]

\* registry.entries() and the meshes that have an entry in it
entries == MapValues(mapRef)
entryIds == { entries[k].id : k \in 1 .. Len(entries) }

\* const pos = geom.getAttribute("position"); if (!pos) return / continue
hasPos(e) == hasPosition[e]

\* a loop over registry.entries() reaches the entry of mesh e and gets past
\* its position check
reached(e) == e \in entryIds /\ hasPos(e)

\* variant: a missing snapshot is replaced by the loaded geometry
moveStart_Loaded(e) ==
  IF dragStartPositionsRef[e].null THEN InitPositions(e)
                                   ELSE dragStartPositionsRef[e].current

\* the snapshot moveSelected works from: the drag snapshot, or a copy of the
\* current buffer when beginMove did not run
moveStart(e) ==
  IF dragStartPositionsRef[e].null THEN position[e]
                                   ELSE dragStartPositionsRef[e].current

\* variant: moveSelected reads the flag of the controller
usesProportional_Live(e) == proportionalEnabled

\* moveSelected takes the proportional branch
usesProportional(e) ==
  /\ ~dragOptsRef[e].null
  /\ dragOptsRef[e].current.proportionalEnabled

\* variant: the proportional branch reads the radius of the controller
moveSelected_LiveRadius(e, deltaWorld) ==
  LET start == moveStart(e)
      deltaLocal == computeDeltaLocal(e, deltaWorld)
  IN IF ~usesProportional(e)
       THEN applyNonProportionalMove(position[e], start, selectedRef[e], deltaLocal)
       ELSE applyProportionalMove(e, start, selectedRef[e], dragPivotLocalRef[e],
                                  radiusWorld, dragOptsRef[e].current.falloff,
                                  deltaLocal)

\* the position buffer after entry.moveSelected(deltaWorld)
moveSelected(e, deltaWorld) ==
  LET start == moveStart(e)
      deltaLocal == computeDeltaLocal(e, deltaWorld)
  IN IF ~usesProportional(e)
       THEN applyNonProportionalMove(position[e], start, selectedRef[e], deltaLocal)
       ELSE applyProportionalMove(e, start, selectedRef[e], dragPivotLocalRef[e],
                                  dragOptsRef[e].current.radiusWorld,
                                  dragOptsRef[e].current.falloff, deltaLocal)

\* pos.needsUpdate = true at the end of moveSelected
moveSelectedDirty(e) == TRUE

\* variant: beginMove takes the snapshot from the loaded geometry
beginMoveSnapshot_Loaded(e) == Ref(InitPositions(e))

\* the snapshot beginMove takes: (pos.array as Float32Array).slice()
beginMoveSnapshot(e) == Ref(position[e])

\* the options beginMove stores
beginMoveOpts(proportional, radius, kind) ==
  Ref([proportionalEnabled |-> proportional, radiusWorld |-> radius, falloff |-> kind])

\* variant: endMove keeps the snapshot
endMoveSnapshot_Keep(e) == dragStartPositionsRef[e]

\* the snapshot endMove leaves
endMoveSnapshot(e) == NullRef

\* variant: a plain click toggles like a shift-click
onPointerDownUpdater_AlwaysToggle(prev, idx, multi) ==
  IF Includes(prev, idx) THEN Filter(prev, idx) ELSE Append(prev, idx)

\* variant: a shift-click never removes
onPointerDownUpdater_NoRemove(prev, idx, multi) ==
  IF ~multi THEN <<idx>>
  ELSE IF Includes(prev, idx) THEN prev
  ELSE Append(prev, idx)

\* variant: a shift-click always appends
onPointerDownUpdater_AlwaysAppend(prev, idx, multi) ==
  IF ~multi THEN <<idx>> ELSE Append(prev, idx)

\* the updater onPointerDown passes to setSelectedIndices
onPointerDownUpdater(prev, idx, multi) ==
  IF ~multi THEN <<idx>>
  ELSE IF Includes(prev, idx) THEN Filter(prev, idx)
  ELSE Append(prev, idx)

\* variant: the effect that copies the state into selectedRef has not run
\* when the next event is handled
SetSelection_NoEffect(next) ==
  /\ selectedIndices' = next
  /\ selectedRef' = selectedRef
  /\ selStable' = [e \in Meshes |->
                     IF next[e] /= selectedIndices[e] /\ ~dragStartPositionsRef[e].null
                       THEN FALSE ELSE selStable[e]]

\* setSelectedIndices(next) on entry e, its render and the effect that copies
\* the state into selectedRef
SetSelection(next) ==
  /\ selectedIndices' = next
  /\ selectedRef' = next
  /\ selStable' = [e \in Meshes |->
                     IF next[e] /= selectedIndices[e] /\ ~dragStartPositionsRef[e].null
                       THEN FALSE ELSE selStable[e]]

\* the click repeats the click before it (same entry, vertex and modifier)
Repeats(e, idx, multi) ==
  /\ lastOp.op = "click"
  /\ lastOp.e = e /\ lastOp.idx = idx /\ lastOp.multi = multi

\* onPointerDown of the points of mesh e, on vertex idx (left button)
onPointerDown(e, idx, multi) ==
  /\ SetSelection([selectedIndices EXCEPT
                     ![e] = onPointerDownUpdater(selectedIndices[e], idx, multi)])
  /\ lastOp' = [op |-> "click", e |-> e, idx |-> idx, multi |-> multi,
                prev |-> selectedIndices[e],
                before |-> IF Repeats(e, idx, multi)
                             THEN [twice |-> TRUE, prev |-> lastOp.prev]
                             ELSE [twice |-> FALSE]]
  /\ UNCHANGED <<bufVars, moveVars, controlsEnabled, boxVars, lastDelta, moves,
                 drags, restVars>>

Click(e, idx, multi) ==
  /\ reached(e)
  /\ clicks < MaxClicks
  /\ clicks' = clicks + 1
  /\ onPointerDown(e, idx, multi)

(***************************************************************************)
(* SelectionProvider: the registry.                                        *)
(***************************************************************************)
\* registry.register(entry) by a new SelectableVertices instance for mesh id;
\* the closure it returns deletes by id
register(id) ==
  /\ regs < MaxRegs
  /\ regs' = regs + 1
  /\ mapRef' = MapSet(mapRef, id, PointsEntry(id, regs + 1))
  /\ unregisterFns' = unregisterFns \cup {[id |-> id, owner |-> regs + 1]}
  /\ lastOp' = [op |-> "register", id |-> id, owner |-> regs + 1,
                before |-> mapRef]
  /\ UNCHANGED <<entryVars, moveVars, controlsEnabled, boxVars, lastDelta,
                 selStable, moves, drags, clicks, wheelTicks, sceneVars, fnVars>>

\* () => mapRef.current.delete(entry.id)
unregisterDelete(m, fn) == MapDelete(m, fn.id)

\* a closure returned by register is called (the cleanup of the effect of
\* the instance that registered)
unregister(fn) ==
  /\ fn \in unregisterFns
  /\ mapRef' = unregisterDelete(mapRef, fn)
  /\ unregisterFns' = unregisterFns \ {fn}
  /\ lastOp' = [op |-> "unregister", id |-> fn.id, owner |-> fn.owner,
                before |-> mapRef]
  /\ UNCHANGED <<entryVars, moveVars, controlsEnabled, boxVars, lastDelta,
                 selStable, moves, drags, clicks, wheelTicks, regs, sceneVars,
                 fnVars>>

\* variant: clearSelection keeps the selection
clearSelection_Keep(prev) == prev

\* the clearSelection of an entry: setSelectedIndices([])
clearSelection(prev) == <<>>

\* registry.clearAllSelections(): clearSelection on every entry
clearAllSelections ==
  SetSelection([e \in Meshes |->
                  IF e \in entryIds THEN clearSelection(selectedIndices[e])
                                    ELSE selectedIndices[e]])

\* onPointerMissed of the canvas: a click that hits no object
onPointerMissed ==
  /\ clearAllSelections
  /\ lastOp' = [op |-> "missed", prev |-> selectedIndices]
  /\ UNCHANGED <<bufVars, moveVars, controlsEnabled, boxVars, lastDelta, moves,
                 drags, clicks, restVars>>

(***************************************************************************)
(* The export of the page.  SceneNodes are the nodes root.traverse visits: *)
(* node 0 is the root group, the others are the meshes.  The world         *)
(* transforms of the scene have no rotation.                               *)
(***************************************************************************)
SceneNodes == {0} \cup Meshes

\* anyObj.isMesh || anyObj.isSkinnedMesh
nodeIsMesh(n) == n \in Meshes
\* srcGeom?.attributes?.position
nodeHasPosition(n) == n \in Meshes /\ hasPosition[n]

IdentityQuaternion == <<0, 0, 0, Unit>>
getWorldPosition(e) == MeshOffset(e)
getWorldQuaternion(e) == IdentityQuaternion
getWorldScale(e) == <<Unit \div MeshInvScale(e), Unit \div MeshInvScale(e),
                      Unit \div MeshInvScale(e)>>

\* geom.applyMatrix4(mesh.matrixWorld) on a clone of the position buffer
applyMatrix4(e, pos) == [i \in Verts |-> LocalToWorld(e, pos[i])]

\* variant: the geometry of a skinned mesh is baked as well
bakedPositions_Always(e) == applyMatrix4(e, position[e])

\* the vertex positions of the exported mesh
bakedPositions(e) ==
  IF ~isSkinnedMesh[e] THEN applyMatrix4(e, position[e]) ELSE position[e]

\* variant: every mesh node is exported
exported_AnyMesh(n) == nodeIsMesh(n)

\* the node passes the checks of the traversal callback
exported(n) == nodeIsMesh(n) /\ nodeHasPosition(n)

\* outMesh for mesh e
outMesh(e) ==
  [name |-> e,
   geometry |-> IF nodeHasPosition(e) THEN Ref(bakedPositions(e)) ELSE NullRef,
   position |-> IF isSkinnedMesh[e] THEN getWorldPosition(e) ELSE Zero3,
   quaternion |-> IF isSkinnedMesh[e] THEN getWorldQuaternion(e)
                                      ELSE IdentityQuaternion,
   scale |-> IF isSkinnedMesh[e] THEN getWorldScale(e) ELSE <<Unit, Unit, Unit>>]

\* the children of exportGroup after the traversal of the nodes
RECURSIVE exportGroup(_)
exportGroup(nodes) ==
  IF nodes = <<>> THEN <<>>
  ELSE IF exported(Head(nodes))
    THEN <<outMesh(Head(nodes))>> \o exportGroup(Tail(nodes))
    ELSE exportGroup(Tail(nodes))

\* click on "download deformed mesh"
downloadDeformedMesh ==
  /\ lastOp' = [op |-> "export", children |-> exportGroup(SortedSeq(SceneNodes))]
  /\ UNCHANGED <<entryVars, moveVars, controlsEnabled, boxVars, lastDelta,
                 selStable, moves, drags, clicks, restVars>>

(***************************************************************************)
(* MoveSelected: the drag controller.                                      *)
(***************************************************************************)
hasAnySelection == \E e \in entryIds : Len(getSelected(e)) > 0

RECURSIVE SumWorld(_, _)
SumWorld(e, selected) ==
  IF selected = <<>> THEN Zero3
  ELSE VAdd(LocalToWorld(e, position[e][Head(selected)]), SumWorld(e, Tail(selected)))

RECURSIVE SumEntries(_)
SumEntries(S) ==
  IF S = {} THEN [sum |-> Zero3, n |-> 0]
  ELSE LET e == CHOOSE x \in S : TRUE
           rest == SumEntries(S \ {e})
       IN [sum |-> VAdd(SumWorld(e, getSelected(e)), rest.sum),
           n |-> Len(getSelected(e)) + rest.n]

\* null, or the mean of the world positions of the selected vertices
computeSelectionCentroidWorld ==
  LET t == SumEntries({e \in entryIds : hasPos(e)})
  IN IF t.n = 0 THEN NullRef ELSE Ref(VDiv(t.sum, t.n))

\* the render of MoveSelected after one of its state variables changed:
\* TransformControls is rendered iff enabled and some entry has a selection;
\* an unmounted TransformControls is no longer dragging
Render(en) ==
  /\ tcMounted' = (en /\ hasAnySelection)
  /\ dragging' = (dragging /\ tcMounted /\ en /\ hasAnySelection)

\* keydown of the mode key
KeyDown ==
  /\ ~enabled
  /\ enabled' = TRUE
  /\ Render(TRUE)
  /\ LET center == computeSelectionCentroidWorld
     IN IF center.null THEN UNCHANGED <<pivot, prevPivotWorld>>
        ELSE /\ pivot' = center.current
             /\ prevPivotWorld' = center.current
  /\ lastOp' = [op |-> "keydown"]
  /\ UNCHANGED <<entryVars, proportionalEnabled, radiusWorld, falloff,
                 dragStartPivotWorld, controlsEnabled, boxVars, lastDelta,
                 selStable, moves, drags, clicks, restVars>>

\* keyup of the mode key
KeyUp ==
  /\ enabled
  /\ enabled' = FALSE
  /\ Render(FALSE)
  /\ lastOp' = [op |-> "keyup"]
  /\ UNCHANGED <<entryVars, proportionalEnabled, radiusWorld, falloff, pivot,
                 prevPivotWorld, dragStartPivotWorld, controlsEnabled, boxVars,
                 lastDelta, selStable, moves, drags, clicks, restVars>>

\* keydown of "o"
ToggleProportional ==
  /\ proportionalEnabled' = ~proportionalEnabled
  /\ Render(enabled)
  /\ lastOp' = [op |-> "toggle"]
  /\ UNCHANGED <<entryVars, enabled, radiusWorld, falloff, pivot, prevPivotWorld,
                 dragStartPivotWorld, controlsEnabled, boxVars, lastDelta,
                 selStable, moves, drags, clicks, restVars>>

\* Math.sign(e.deltaY)
WheelDirs == {0 - 1, 0, 1}

\* r * (dir > 0 ? 0.9 : 1.1)
scaleRadius(r, dir) == IF dir > 0 THEN (r * 9) \div 10 ELSE (r * 11) \div 10

\* variant: no upper limit
clampRadius_NoMax(next) == Max(next, RadiusMin)

\* Math.min(Math.max(next, 0.001), 1000)
clampRadius(next) == Min(Max(next, RadiusMin), RadiusMax)

\* wheel event on the window; the listener is attached while the tool is
\* enabled.  A tick that leaves the radius where it is renders nothing.
onWheel(dir) ==
  /\ enabled
  /\ wheelTicks < MaxWheel
  /\ wheelTicks' = wheelTicks + 1
  /\ IF ~proportionalEnabled
       THEN UNCHANGED <<radiusWorld, tcMounted, dragging>>
       ELSE /\ radiusWorld' = clampRadius(scaleRadius(radiusWorld, dir))
            /\ IF radiusWorld' = radiusWorld
                 THEN UNCHANGED <<tcMounted, dragging>>
                 ELSE Render(enabled)
  /\ lastOp' = [op |-> "wheel", dir |-> dir, prev |-> radiusWorld,
                handled |-> proportionalEnabled]
  /\ UNCHANGED <<entryVars, enabled, proportionalEnabled, falloff, pivot,
                 prevPivotWorld, dragStartPivotWorld, controlsEnabled, boxVars,
                 lastDelta, selStable, moves, drags, clicks, regs, sceneVars,
                 regVars, fnVars>>

\* onDraggingChanged({value: true}): the gizmo was grabbed
DragStart ==
  /\ tcMounted
  /\ ~dragging
  /\ drags < MaxDrags
  /\ drags' = drags + 1
  /\ dragging' = TRUE
  /\ controlsEnabled' = FALSE
  /\ prevPivotWorld' = pivot
  /\ dragStartPivotWorld' = pivot
  /\ dragStartPositionsRef' = [e \in Meshes |->
                                 IF reached(e) THEN beginMoveSnapshot(e)
                                               ELSE dragStartPositionsRef[e]]
  /\ dragPivotLocalRef' = [e \in Meshes |->
                             IF reached(e) THEN WorldToLocal(e, pivot)
                                           ELSE dragPivotLocalRef[e]]
  /\ dragOptsRef' = [e \in Meshes |->
                       IF reached(e)
                         THEN beginMoveOpts(proportionalEnabled, radiusWorld, falloff)
                         ELSE dragOptsRef[e]]
  /\ selStable' = [e \in Meshes |-> TRUE]
  /\ moves' = 0
  /\ lastOp' = [op |-> "begin"]
  /\ UNCHANGED <<selVars, position, needsUpdate, derivedVars, enabled, proportionalEnabled,
                 radiusWorld, falloff, tcMounted, pivot, boxVars, lastDelta,
                 clicks, restVars>>

\* onObjectChange: the gizmo moved the pivot to its drag-start position + off
onObjectChange(off) ==
  /\ tcMounted
  /\ dragging
  /\ pivot' = VAdd(dragStartPivotWorld, off)
  /\ IF off = Zero3
       THEN /\ lastOp' = [op |-> "still"]
            /\ UNCHANGED <<bufVars, prevPivotWorld, lastDelta, selStable, moves>>
       ELSE /\ prevPivotWorld' = pivot'
            /\ position' = [e \in Meshes |->
                               IF reached(e) THEN moveSelected(e, off) ELSE position[e]]
            /\ dragStartPositionsRef' = [e \in Meshes |->
                                           IF reached(e) THEN Ref(moveStart(e))
                                                         ELSE dragStartPositionsRef[e]]
            /\ needsUpdate' = [e \in Meshes |->
                                 IF reached(e) THEN moveSelectedDirty(e)
                                               ELSE needsUpdate[e]]
            /\ boundingBox' = [e \in Meshes |->
                 IF reached(e)
                   THEN Ref(computeBoundingBox(recomputeInput(position[e], position'[e])))
                   ELSE boundingBox[e]]
            /\ boundingSphere' = [e \in Meshes |->
                 IF reached(e)
                   THEN Ref(computeBoundingSphere(recomputeInput(position[e], position'[e])))
                   ELSE boundingSphere[e]]
            /\ normals' = [e \in Meshes |->
                 IF reached(e)
                   THEN Ref(computeVertexNormals(recomputeInput(position[e], position'[e])))
                   ELSE normals[e]]
            /\ selStable' = [e \in Meshes |->
                               IF dragStartPositionsRef[e].null THEN TRUE
                                                                ELSE selStable[e]]
            /\ moves' = IF moves = 0 THEN 1 ELSE IF off /= lastDelta THEN 2 ELSE moves
            /\ lastDelta' = off
            /\ lastOp' = [op |-> "move"]
            /\ UNCHANGED <<dragPivotLocalRef, dragOptsRef>>
  /\ UNCHANGED <<selVars, enabled, proportionalEnabled, radiusWorld, falloff,
                 tcMounted, dragging, dragStartPivotWorld, controlsEnabled, boxVars,
                 drags, clicks, restVars>>

\* onDraggingChanged({value: false}): the gizmo was released
DragEnd ==
  /\ tcMounted
  /\ dragging
  /\ dragging' = FALSE
  /\ controlsEnabled' = TRUE
  /\ dragStartPositionsRef' = [e \in Meshes |->
                                 IF e \in entryIds THEN endMoveSnapshot(e)
                                                   ELSE dragStartPositionsRef[e]]
  /\ dragOptsRef' = [e \in Meshes |->
                       IF e \in entryIds THEN NullRef ELSE dragOptsRef[e]]
  /\ selStable' = [e \in Meshes |-> TRUE]
  /\ normals' = [e \in Meshes |->
                   IF reached(e) THEN Ref(computeVertexNormals(position[e]))
                                 ELSE normals[e]]
  /\ lastOp' = [op |-> "end"]
  /\ UNCHANGED <<selVars, position, needsUpdate, boundingBox, boundingSphere,
                 dragPivotLocalRef, enabled,
                 proportionalEnabled, radiusWorld, falloff, tcMounted, pivot,
                 prevPivotWorld, dragStartPivotWorld, boxVars, lastDelta, moves,
                 drags, clicks, restVars>>

(***************************************************************************)
(* BoxSelect.  Pointer events carry integer client coordinates.  The       *)
(* camera is modelled as an orthographic camera looking down the z axis    *)
(* whose frustum spans FrustumHalf in every direction, so that project()   *)
(* maps the world point (x, y, z) to the normalized device coordinates     *)
(* (x / FrustumHalf, y / FrustumHalf).  Projected pixel positions are kept *)
(* as exact fractions num / den.                                           *)
(***************************************************************************)
FrustumHalf == 2 * Unit

PointerXs == {12, 14, 15}
PointerYs == {22, 24}

\* `${x}px` and parseFloat
Px(x) == [value |-> x, unit |-> "px"]
parseFloat(s) == s.value

\* the rect getMouse and onUp work with
currentRect == IF baseRectRef.null THEN overlayRect ELSE baseRectRef.current

\* sx = (tmp.x * 0.5 + 0.5) * r.width of vertex position p of mesh e
screenX(e, p, r) ==
  [num |-> (p[1] + (MeshOffset(e)[1] + FrustumHalf) * MeshInvScale(e)) * r.width,
   den |-> 2 * FrustumHalf * MeshInvScale(e)]
\* sy = (-tmp.y * 0.5 + 0.5) * r.height
screenY(e, p, r) ==
  [num |-> ((FrustumHalf - MeshOffset(e)[2]) * MeshInvScale(e) - p[2]) * r.height,
   den |-> 2 * FrustumHalf * MeshInvScale(e)]

\* q >= n and q <= n for a fraction q and an integer n
FracGeq(q, n) == q.num >= n * q.den
FracLeq(q, n) == q.num <= n * q.den

\* variant: the edges of the rectangle are excluded
inBox_Strict(sx, sy, left, top, right, bottom) ==
  /\ ~FracLeq(sx, left) /\ ~FracGeq(sx, right)
  /\ ~FracLeq(sy, top) /\ ~FracGeq(sy, bottom)

\* sx >= left && sx <= right && sy >= top && sy <= bottom
inBox(sx, sy, left, top, right, bottom) ==
  /\ FracGeq(sx, left) /\ FracLeq(sx, right)
  /\ FracGeq(sy, top) /\ FracLeq(sy, bottom)

\* the indices onUp pushes into picked, in increasing order
RECURSIVE pickedFrom(_, _, _, _, _, _, _)
pickedFrom(i, e, r, left, top, right, bottom) ==
  IF i >= NumVerts THEN <<>>
  ELSE LET rest == pickedFrom(i + 1, e, r, left, top, right, bottom)
       IN IF inBox(screenX(e, position[e][i], r), screenY(e, position[e][i], r),
                   left, top, right, bottom)
            THEN <<i>> \o rest ELSE rest
picked(e, r, left, top, w, h) == pickedFrom(0, e, r, left, top, left + w, top + h)

\* variant: only empty rectangles are dropped
tooSmall_ZeroOnly(w, h) == w < 1 \/ h < 1

\* w < 2 || h < 2
tooSmall(w, h) == w < BoxThreshold \/ h < BoxThreshold

\* keydown / keyup of the box-select key
BoxKey(down) ==
  /\ keyDownRef' = down
  /\ lastOp' = [op |-> "boxkey"]
  /\ UNCHANGED <<entryVars, moveVars, controlsEnabled, startRef, boxStyle,
                 baseRectRef, overlayRect, lastDelta, selStable, moves, drags,
                 clicks, restVars>>

\* pointerdown on the canvas (left button) at client position (cx, cy)
onDown(cx, cy) ==
  /\ keyDownRef
  /\ baseRectRef' = Ref(overlayRect)
  /\ startRef' = Ref([x |-> cx - overlayRect.left, y |-> cy - overlayRect.top])
  /\ boxStyle' = [left |-> Px(cx - overlayRect.left), top |-> Px(cy - overlayRect.top),
                  width |-> Px(0), height |-> Px(0)]
  /\ controlsEnabled' = FALSE
  /\ lastOp' = [op |-> "boxdown"]
  /\ UNCHANGED <<entryVars, moveVars, keyDownRef, overlayRect, lastDelta,
                 selStable, moves, drags, clicks, restVars>>

\* pointermove on the canvas
onMove(cx, cy) ==
  /\ ~startRef.null
  /\ LET px == cx - currentRect.left
         py == cy - currentRect.top
         sx == startRef.current.x
         sy == startRef.current.y
     IN boxStyle' = [left |-> Px(Min(sx, px)), top |-> Px(Min(sy, py)),
                     width |-> Px(Max(sx, px) - Min(sx, px)),
                     height |-> Px(Max(sy, py) - Min(sy, py))]
  /\ lastOp' = [op |-> "boxmove"]
  /\ UNCHANGED <<entryVars, moveVars, controlsEnabled, keyDownRef, startRef,
                 baseRectRef, overlayRect, lastDelta, selStable, moves, drags,
                 clicks, restVars>>

\* pointerup on the window
onUp ==
  /\ ~startRef.null
  /\ LET left == parseFloat(boxStyle.left)
         top == parseFloat(boxStyle.top)
         w == parseFloat(boxStyle.width)
         h == parseFloat(boxStyle.height)
         r == currentRect
     IN IF tooSmall(w, h)
          THEN /\ lastOp' = [op |-> "boxabort", prev |-> selectedIndices]
               /\ UNCHANGED <<selVars, selStable>>
          ELSE /\ SetSelection([e \in Meshes |->
                                  IF reached(e) THEN picked(e, r, left, top, w, h)
                                                ELSE selectedIndices[e]])
               /\ lastOp' = [op |-> "boxselect", prev |-> selectedIndices, r |-> r]
  /\ startRef' = NullRef
  /\ baseRectRef' = NullRef
  /\ controlsEnabled' = TRUE
  /\ UNCHANGED <<bufVars, moveVars, keyDownRef, boxStyle, overlayRect, lastDelta,
                 moves, drags, clicks, restVars>>

\* the page layout changes: the overlay gets another bounding rect
Relayout(r) ==
  /\ r /= overlayRect
  /\ overlayRect' = r
  /\ lastOp' = [op |-> "layout"]
  /\ UNCHANGED <<entryVars, moveVars, controlsEnabled, keyDownRef, startRef,
                 boxStyle, baseRectRef, lastDelta, selStable, moves, drags, clicks, restVars>>

(***************************************************************************)
(* Initial state: the scene is loaded, every mesh has its entry, nothing   *)
(* is selected, no key is held.                                            *)
(***************************************************************************)
OverlayRects == { [left |-> 10, top |-> 20, width |-> 8, height |-> 8],
                  [left |-> 10, top |-> 20, width |-> 4, height |-> 8] }

Init ==
  /\ boundingBox = [e \in Meshes |-> NullRef]
  /\ boundingSphere = [e \in Meshes |-> NullRef]
  /\ normals = [e \in Meshes |-> NullRef]
  /\ selectedIndices = [e \in Meshes |-> <<>>]
  /\ selectedRef = [e \in Meshes |-> <<>>]
  /\ position = [e \in Meshes |-> InitPositions(e)]
  /\ needsUpdate = [e \in Meshes |-> FALSE]
  /\ dragStartPositionsRef = [e \in Meshes |-> NullRef]
  /\ dragPivotLocalRef = [e \in Meshes |-> Zero3]
  /\ dragOptsRef = [e \in Meshes |-> NullRef]
  /\ enabled = FALSE
  /\ proportionalEnabled = TRUE
  /\ radiusWorld = DefaultRadius
  /\ falloff = "smooth"
  /\ tcMounted = FALSE
  /\ dragging = FALSE
  /\ pivot = Zero3
  /\ prevPivotWorld = Zero3
  /\ dragStartPivotWorld = Zero3
  /\ controlsEnabled = TRUE
  /\ keyDownRef = FALSE
  /\ startRef = NullRef
  /\ boxStyle = [left |-> Px(0), top |-> Px(0), width |-> Px(0), height |-> Px(0)]
  /\ baseRectRef = NullRef
  /\ overlayRect = [left |-> 10, top |-> 20, width |-> 8, height |-> 8]
  /\ lastOp = [op |-> "init"]
  /\ lastDelta = Zero3
  /\ selStable = [e \in Meshes |-> TRUE]
  /\ moves = 0
  /\ drags = 0
  /\ clicks = 0
  /\ wheelTicks = 0
  /\ regs = Cardinality(Meshes)
  /\ hasPosition = [e \in Meshes |-> TRUE]
  /\ isSkinnedMesh = [e \in Meshes |-> FALSE]
  /\ mapRef = DroppedModel([e \in Meshes |-> TRUE])
  /\ unregisterFns = closuresOf(mapRef)
  /\ falloffT = 0
  /\ falloffW = Unit

\* clicks, the mode key, the proportional toggle and gizmo drags
Next ==
  \/ \E e \in Meshes, idx \in Verts, multi \in BOOLEAN : Click(e, idx, multi)
  \/ KeyDown
  \/ KeyUp
  \/ ToggleProportional
  \/ DragStart
  \/ \E off \in DragOffsets : onObjectChange(off)
  \/ DragEnd

Spec == Init /\ [][Next]_vars

\* clicks and box selection on the loaded scene
NextSelect ==
  \/ \E e \in Meshes, idx \in Verts, multi \in BOOLEAN : Click(e, idx, multi)
  \/ \E down \in BOOLEAN : BoxKey(down)
  \/ \E cx \in PointerXs, cy \in PointerYs : onDown(cx, cy)
  \/ \E cx \in PointerXs, cy \in PointerYs : onMove(cx, cy)
  \/ onUp
  \/ \E r \in OverlayRects : Relayout(r)
  \/ onPointerMissed

SpecSelect == Init /\ [][NextSelect]_vars

\* the deformation on its own: any selection, falloff kind and radius, the
\* tool enabled with the pivot on the centroid of the selection
RadiusProps == {DefaultRadius, 1500}

InitProp ==
  /\ boundingBox = [e \in Meshes |-> NullRef]
  /\ boundingSphere = [e \in Meshes |-> NullRef]
  /\ normals = [e \in Meshes |-> NullRef]
  /\ wheelTicks = 0
  /\ falloffT = 0
  /\ falloffW = Unit
  /\ regs = Cardinality(Meshes)
  /\ hasPosition = [e \in Meshes |-> TRUE]
  /\ isSkinnedMesh = [e \in Meshes |-> FALSE]
  /\ mapRef = DroppedModel([e \in Meshes |-> TRUE])
  /\ unregisterFns = closuresOf(mapRef)
  /\ selectedIndices \in [Meshes -> {SortedSeq(S) : S \in SUBSET Verts}]
  /\ selectedRef = selectedIndices
  /\ position = [e \in Meshes |-> InitPositions(e)]
  /\ needsUpdate = [e \in Meshes |-> FALSE]
  /\ dragStartPositionsRef = [e \in Meshes |-> NullRef]
  /\ dragPivotLocalRef = [e \in Meshes |-> Zero3]
  /\ dragOptsRef = [e \in Meshes |-> NullRef]
  /\ enabled = TRUE
  /\ proportionalEnabled = TRUE
  /\ radiusWorld \in RadiusProps
  /\ falloff \in Falloffs
  /\ tcMounted = hasAnySelection
  /\ dragging = FALSE
  /\ pivot = IF computeSelectionCentroidWorld.null THEN Zero3
             ELSE computeSelectionCentroidWorld.current
  /\ prevPivotWorld = pivot
  /\ dragStartPivotWorld = Zero3
  /\ controlsEnabled = TRUE
  /\ keyDownRef = FALSE
  /\ startRef = NullRef
  /\ boxStyle = [left |-> Px(0), top |-> Px(0), width |-> Px(0), height |-> Px(0)]
  /\ baseRectRef = NullRef
  /\ overlayRect = [left |-> 10, top |-> 20, width |-> 8, height |-> 8]
  /\ lastOp = [op |-> "keydown"]
  /\ lastDelta = Zero3
  /\ selStable = [e \in Meshes |-> TRUE]
  /\ moves = 0
  /\ drags = 0
  /\ clicks = 0

NextProp ==
  \/ DragStart
  \/ \E off \in DragOffsets : onObjectChange(off)
  \/ DragEnd

SpecProp == InitProp /\ [][NextProp]_vars

\* the entries before any drag, and the tools before any input
EntriesIdle ==
  /\ boundingBox = [e \in Meshes |-> NullRef]
  /\ boundingSphere = [e \in Meshes |-> NullRef]
  /\ normals = [e \in Meshes |-> NullRef]
  /\ position = [e \in Meshes |-> InitPositions(e)]
  /\ needsUpdate = [e \in Meshes |-> FALSE]
  /\ dragStartPositionsRef = [e \in Meshes |-> NullRef]
  /\ dragPivotLocalRef = [e \in Meshes |-> Zero3]
  /\ dragOptsRef = [e \in Meshes |-> NullRef]

ToolsIdle ==
  /\ enabled = FALSE
  /\ proportionalEnabled = TRUE
  /\ falloff = "smooth"
  /\ tcMounted = FALSE
  /\ dragging = FALSE
  /\ pivot = Zero3
  /\ prevPivotWorld = Zero3
  /\ dragStartPivotWorld = Zero3
  /\ controlsEnabled = TRUE
  /\ keyDownRef = FALSE
  /\ startRef = NullRef
  /\ boxStyle = [left |-> Px(0), top |-> Px(0), width |-> Px(0), height |-> Px(0)]
  /\ baseRectRef = NullRef
  /\ overlayRect = [left |-> 10, top |-> 20, width |-> 8, height |-> 8]
  /\ lastOp = [op |-> "init"]
  /\ lastDelta = Zero3
  /\ selStable = [e \in Meshes |-> TRUE]
  /\ moves = 0
  /\ drags = 0
  /\ clicks = 0
  /\ wheelTicks = 0
  /\ falloffT = 0
  /\ falloffW = Unit

\* the radius under the wheel: the default radius and the radii 35 ticks
\* down and 87 ticks up from it
WheelRadii == {DefaultRadius, 2, 984111}
\* vertex 0 of a mesh is selected, or nothing is
StartSelections == {<<>>, <<0>>}

InitWheel ==
  /\ regs = Cardinality(Meshes)
  /\ hasPosition = [e \in Meshes |-> TRUE]
  /\ isSkinnedMesh = [e \in Meshes |-> FALSE]
  /\ mapRef = DroppedModel([e \in Meshes |-> TRUE])
  /\ unregisterFns = closuresOf(mapRef)
  /\ selectedIndices \in [Meshes -> StartSelections]
  /\ selectedRef = selectedIndices
  /\ EntriesIdle
  /\ radiusWorld \in WheelRadii
  /\ ToolsIdle

NextWheel ==
  \/ KeyDown
  \/ KeyUp
  \/ ToggleProportional
  \/ \E dir \in WheelDirs : onWheel(dir)
  \/ DragStart
  \/ \E off \in DragOffsets : onObjectChange(off)
  \/ DragEnd

SpecWheel == InitWheel /\ [][NextWheel]_vars

\* the registry on its own: SelectionProvider is mounted and no
\* SelectableVertices has registered yet
InitRegistry ==
  /\ regs = 0
  /\ hasPosition = [e \in Meshes |-> TRUE]
  /\ isSkinnedMesh = [e \in Meshes |-> FALSE]
  /\ mapRef = <<>>
  /\ unregisterFns = {}
  /\ selectedIndices = [e \in Meshes |-> <<>>]
  /\ selectedRef = [e \in Meshes |-> <<>>]
  /\ EntriesIdle
  /\ radiusWorld = DefaultRadius
  /\ ToolsIdle

NextRegistry ==
  \/ \E id \in Meshes : register(id)
  \/ \E fn \in unregisterFns : unregister(fn)

SpecRegistry == InitRegistry /\ [][NextRegistry]_vars

\* a loaded scene whose meshes may lack a position attribute.
\* SelectableVertices is mounted by DroppedModel for the meshes that have
\* positions, or by another parent for every mesh.
InitScene ==
  /\ regs = Cardinality(Meshes)
  /\ hasPosition \in [Meshes -> BOOLEAN]
  /\ isSkinnedMesh = [e \in Meshes |-> FALSE]
  /\ mapRef \in {DroppedModel(hasPosition), DroppedModel([e \in Meshes |-> TRUE])}
  /\ unregisterFns = closuresOf(mapRef)
  /\ selectedIndices = [e \in Meshes |-> <<>>]
  /\ selectedRef = [e \in Meshes |-> <<>>]
  /\ EntriesIdle
  /\ radiusWorld = DefaultRadius
  /\ ToolsIdle

\* box selection, gizmo drags and the export
NextScene ==
  \/ \E down \in BOOLEAN : BoxKey(down)
  \/ \E cx \in PointerXs, cy \in PointerYs : onDown(cx, cy)
  \/ \E cx \in PointerXs, cy \in PointerYs : onMove(cx, cy)
  \/ onUp
  \/ KeyDown
  \/ DragStart
  \/ \E off \in DragOffsets : onObjectChange(off)
  \/ DragEnd
  \/ downloadDeformedMesh

SpecScene == InitScene /\ [][NextScene]_vars

\* the export of a deformed scene whose meshes may be skinned: vertex 0 of a
\* mesh may be selected; gizmo drags and the download button
InitExport ==
  /\ regs = Cardinality(Meshes)
  /\ hasPosition = [e \in Meshes |-> TRUE]
  /\ isSkinnedMesh \in [Meshes -> BOOLEAN]
  /\ mapRef = DroppedModel(hasPosition)
  /\ unregisterFns = closuresOf(mapRef)
  /\ selectedIndices \in [Meshes -> StartSelections]
  /\ selectedRef = selectedIndices
  /\ EntriesIdle
  /\ radiusWorld = DefaultRadius
  /\ ToolsIdle

NextExport ==
  \/ KeyDown
  \/ DragStart
  \/ \E off \in DragOffsets : onObjectChange(off)
  \/ DragEnd
  \/ downloadDeformedMesh

SpecExport == InitExport /\ [][NextExport]_vars

\* the loop of applyProportionalMove weighs one unselected vertex inside the
\* radius: w = falloffFn(d * rInv), for a vertex that lies further from the
\* pivot by step than the vertex weighed before
weighVertex(step) ==
  /\ falloffT + step <= Unit
  /\ falloffT' = falloffT + step
  /\ falloffW' = falloffFn(falloff, falloffT + step)
  /\ lastOp' = [op |-> "weigh", prev |-> falloffW]
  /\ UNCHANGED <<entryVars, moveVars, controlsEnabled, boxVars, lastDelta,
                 selStable, moves, drags, clicks, wheelTicks, regs, sceneVars,
                 regVars>>

\* a controller whose proportionalRadius prop may be 0: clicks, the mode key,
\* the proportional toggle and gizmo drags
ZeroRadii == {0, DefaultRadius}

InitZero ==
  /\ regs = Cardinality(Meshes)
  /\ hasPosition = [e \in Meshes |-> TRUE]
  /\ isSkinnedMesh = [e \in Meshes |-> FALSE]
  /\ mapRef = DroppedModel([e \in Meshes |-> TRUE])
  /\ unregisterFns = closuresOf(mapRef)
  /\ selectedIndices = [e \in Meshes |-> <<>>]
  /\ selectedRef = [e \in Meshes |-> <<>>]
  /\ EntriesIdle
  /\ radiusWorld \in ZeroRadii
  /\ ToolsIdle

NextZero ==
  \/ \E e \in Meshes, idx \in Verts, multi \in BOOLEAN : Click(e, idx, multi)
  \/ KeyDown
  \/ ToggleProportional
  \/ DragStart
  \/ \E off \in DragOffsets : onObjectChange(off)
  \/ DragEnd

SpecZero == InitZero /\ [][NextZero]_vars

\* the buffer a drag of vertex 0 by (1, 0, 0) has left
DraggedPositions(e) ==
  applyNonProportionalMove(InitPositions(e), InitPositions(e), <<0>>,
                           computeDeltaLocal(e, <<Unit, 0, 0>>))

\* a scene in which the SelectableVertices of one mesh is not mounted at
\* the moment and each mesh may have been deformed by a drag before: clicks,
\* the mode key, gizmo drags, and the mount of a SelectableVertices that is
\* not mounted
InitLate ==
  /\ regs = 1
  /\ hasPosition = [e \in Meshes |-> TRUE]
  /\ isSkinnedMesh = [e \in Meshes |-> FALSE]
  /\ mapRef \in {DroppedModel([e \in Meshes |-> e = m]) : m \in Meshes}
  /\ unregisterFns = closuresOf(mapRef)
  /\ selectedIndices = [e \in Meshes |-> <<>>]
  /\ selectedRef = [e \in Meshes |-> <<>>]
  /\ \E deformed \in SUBSET Meshes :
       position = [e \in Meshes |-> IF e \in deformed THEN DraggedPositions(e)
                                                      ELSE InitPositions(e)]
  /\ needsUpdate = [e \in Meshes |-> position[e] /= InitPositions(e)]
  /\ boundingBox = [e \in Meshes |->
                      IF needsUpdate[e] THEN Ref(computeBoundingBox(position[e]))
                                        ELSE NullRef]
  /\ boundingSphere = [e \in Meshes |->
                         IF needsUpdate[e] THEN Ref(computeBoundingSphere(position[e]))
                                           ELSE NullRef]
  /\ normals = [e \in Meshes |->
                  IF needsUpdate[e] THEN Ref(computeVertexNormals(position[e]))
                                    ELSE NullRef]
  /\ dragStartPositionsRef = [e \in Meshes |-> NullRef]
  /\ dragPivotLocalRef = [e \in Meshes |-> Zero3]
  /\ dragOptsRef = [e \in Meshes |-> NullRef]
  /\ radiusWorld = DefaultRadius
  /\ ToolsIdle

NextLate ==
  \/ \E e \in Meshes, idx \in Verts, multi \in BOOLEAN : Click(e, idx, multi)
  \/ KeyDown
  \/ DragStart
  \/ \E off \in DragOffsets : onObjectChange(off)
  \/ DragEnd
  \/ \E id \in Meshes : ~MapHas(mapRef, id) /\ register(id)

SpecLate == InitLate /\ [][NextLate]_vars

\* the falloff on its own: any kind, normalised distances from 0 to 1 in
\* increasing order
FalloffSteps == {1, 7, 100}

InitFalloff ==
  /\ regs = Cardinality(Meshes)
  /\ hasPosition = [e \in Meshes |-> TRUE]
  /\ isSkinnedMesh = [e \in Meshes |-> FALSE]
  /\ mapRef = DroppedModel([e \in Meshes |-> TRUE])
  /\ unregisterFns = closuresOf(mapRef)
  /\ selectedIndices = [e \in Meshes |-> <<>>]
  /\ selectedRef = [e \in Meshes |-> <<>>]
  /\ EntriesIdle
  /\ enabled = FALSE
  /\ proportionalEnabled = TRUE
  /\ radiusWorld = DefaultRadius
  /\ falloff \in Falloffs
  /\ tcMounted = FALSE
  /\ dragging = FALSE
  /\ pivot = Zero3
  /\ prevPivotWorld = Zero3
  /\ dragStartPivotWorld = Zero3
  /\ controlsEnabled = TRUE
  /\ keyDownRef = FALSE
  /\ startRef = NullRef
  /\ boxStyle = [left |-> Px(0), top |-> Px(0), width |-> Px(0), height |-> Px(0)]
  /\ baseRectRef = NullRef
  /\ overlayRect = [left |-> 10, top |-> 20, width |-> 8, height |-> 8]
  /\ lastOp = [op |-> "init"]
  /\ lastDelta = Zero3
  /\ selStable = [e \in Meshes |-> TRUE]
  /\ moves = 0
  /\ drags = 0
  /\ clicks = 0
  /\ wheelTicks = 0
  /\ falloffT = 0
  /\ falloffW = falloffFn(falloff, 0)

NextFalloff == \E step \in FalloffSteps : weighVertex(step)

SpecFalloff == InitFalloff /\ [][NextFalloff]_vars

(***************************************************************************)
(* Properties.                                                             *)
(***************************************************************************)
snapshot(e) == dragStartPositionsRef[e].current
lastDeltaLocal(e) == computeDeltaLocal(e, lastDelta)
NoDuplicates(seq) == Cardinality(AsSet(seq)) = Len(seq)
Moved == lastOp.op = "move"

\* after a non-proportional moveSelected, selected vertices are at snapshot +
\* deltaLocal and all other vertices are at their snapshot position
NonProportionalResult(e) ==
  \A i \in Verts :
    position[e][i] = IF i \in AsSet(selectedRef[e])
                       THEN VAdd(snapshot(e)[i], lastDeltaLocal(e))
                       ELSE snapshot(e)[i]

\* C1 as stated: after any moveSelected call of a non-proportional drag,
\* every vertex outside the selection is at its snapshot position and every
\* selected vertex is at snapshot + deltaLocal, also when the selection
\* changed during the drag.
C1_AnyMoveSelected ==
  Moved => \A e \in Meshes : ~usesProportional(e) => NonProportionalResult(e)

\* C1, amended: the same, for entries whose selection has not changed since
\* their drag snapshot was taken.
C1_NonProportionalMove ==
  Moved => \A e \in Meshes :
             (~usesProportional(e) /\ selStable[e]) => NonProportionalResult(e)

\* the example of C1: mesh 1 (identity transform), selection {0}, world delta
\* (1, 0, 0): vertex 0 is at (1, 0, 0), the others where they were
C1_Witness ==
  /\ Moved
  /\ ~usesProportional(1) /\ selStable[1]
  /\ selectedRef[1] = <<0>>
  /\ lastDelta = <<Unit, 0, 0>>
  /\ snapshot(1) = InitPositions(1)
  /\ position[1][0] = <<Unit, 0, 0>>
  /\ \A i \in Verts \ {0} : position[1][i] = InitPositions(1)[i]

\* the weight C2 describes
ClaimedWeight(e, i) ==
  LET radiusLocal == RadiusLocal(e, dragOptsRef[e].current.radiusWorld)
      d == Distance(snapshot(e)[i], dragPivotLocalRef[e])
  IN IF i \in AsSet(selectedRef[e]) THEN Unit
     ELSE IF d >= radiusLocal THEN 0
     ELSE falloffFn(dragOptsRef[e].current.falloff, (d * Unit) \div radiusLocal)

\* C2: after a proportional moveSelected every vertex i of the buffer is at
\* snapshot[i] + deltaLocal * w, with w = 1 for a selected vertex, w = 0 for
\* an unselected vertex at distance >= radiusLocal of the pivot, and
\* w = falloff(d / radiusLocal) otherwise.
C2_ProportionalMove ==
  Moved => \A e \in Meshes :
             usesProportional(e) =>
               \A i \in Verts :
                 position[e][i] =
                   VAdd(snapshot(e)[i], VWeight(lastDeltaLocal(e), ClaimedWeight(e, i)))

\* a proportional move in which a selected vertex lies off the pivot, an
\* unselected vertex has a weight strictly between 0 and 1 and is displaced,
\* and an unselected vertex lies outside the radius
C2_Witness ==
  /\ Moved
  /\ \E e \in Meshes, i \in Verts :
       /\ usesProportional(e)
       /\ i \in AsSet(selectedRef[e])
       /\ Distance(snapshot(e)[i], dragPivotLocalRef[e]) > 0
  /\ \E e \in Meshes, i \in Verts :
       /\ usesProportional(e)
       /\ i \notin AsSet(selectedRef[e])
       /\ ClaimedWeight(e, i) > 0 /\ ClaimedWeight(e, i) < Unit
       /\ position[e][i] /= snapshot(e)[i]
  /\ \E e \in Meshes, i \in Verts :
       /\ usesProportional(e)
       /\ i \notin AsSet(selectedRef[e])
       /\ Distance(snapshot(e)[i], dragPivotLocalRef[e])
            >= RadiusLocal(e, dragOptsRef[e].current.radiusWorld)
       /\ position[e][i] = snapshot(e)[i]

\* the buffer a single moveSelected with the last delta gives on the snapshot
SingleMove(e) ==
  IF ~usesProportional(e)
    THEN applyNonProportionalMove(snapshot(e), snapshot(e), selectedRef[e],
                                  lastDeltaLocal(e))
    ELSE applyProportionalMove(e, snapshot(e), selectedRef[e], dragPivotLocalRef[e],
                               dragOptsRef[e].current.radiusWorld,
                               dragOptsRef[e].current.falloff, lastDeltaLocal(e))

\* C3: within a drag with an unchanged selection, the buffer after any
\* sequence of moveSelected calls equals the buffer of the single last call
\* applied to the snapshot, and a moveSelected that repeats the delta of the
\* moveSelected before it changes no position.
C3_DeltaFromDragStart ==
  /\ [](Moved => \A e \in Meshes : selStable[e] => position[e] = SingleMove(e))
  /\ [][(Moved /\ lastOp'.op = "move" /\ lastDelta' = lastDelta)
          => position' = position]_vars

\* a second moveSelected of a drag, with another delta than the first, has
\* moved a selected vertex
C3_Witness ==
  /\ Moved
  /\ moves = 2
  /\ \E e \in Meshes :
       /\ selStable[e]
       /\ selectedRef[e] /= <<>>
       /\ position[e] /= snapshot(e)

\* C4: an entry holds a drag snapshot if and only if a drag session is
\* active.
C4_SnapshotIffDragActive ==
  \A e \in Meshes : (~dragStartPositionsRef[e].null) <=> dragging

\* C5: after the release of a drag (endMove on every entry) no entry has a
\* snapshot or captured drag options.
C5_ReleaseDiscardsSession ==
  lastOp.op = "end" =>
    \A e \in Meshes : dragStartPositionsRef[e].null /\ dragOptsRef[e].null

\* a drag that deformed a mesh has been released
C5_Witness ==
  /\ lastOp.op = "end"
  /\ ~dragging
  /\ \E e \in Meshes : needsUpdate[e] /\ position[e] /= InitPositions(e)

\* C6: a click without the multi modifier on vertex idx leaves exactly
\* {idx} selected, whatever was selected before.
C6_PlainClickSelectsOne ==
  (lastOp.op = "click" /\ ~lastOp.multi) =>
    /\ selectedIndices[lastOp.e] = <<lastOp.idx>>
    /\ getSelected(lastOp.e) = <<lastOp.idx>>

\* a plain click on an entry that had two other vertices selected
C6_Witness ==
  /\ lastOp.op = "click" /\ ~lastOp.multi
  /\ Len(lastOp.prev) >= 2
  /\ lastOp.idx \notin AsSet(lastOp.prev)
  /\ selectedIndices[lastOp.e] = <<lastOp.idx>>

\* C7: a shift-click on idx removes idx and nothing else when idx was
\* selected, adds idx and nothing else when it was not; two shift-clicks on
\* the same index restore the selection set.
C7_ShiftClickToggles ==
  (lastOp.op = "click" /\ lastOp.multi) =>
    LET before == AsSet(lastOp.prev)
        after == AsSet(selectedIndices[lastOp.e])
    IN /\ lastOp.idx \in before => after = before \ {lastOp.idx}
       /\ lastOp.idx \notin before => after = before \cup {lastOp.idx}
       /\ NoDuplicates(selectedIndices[lastOp.e])
       /\ lastOp.before.twice => after = AsSet(lastOp.before.prev)

\* the second of two shift-clicks on a vertex of an entry that had other
\* vertices selected: the vertex was removed and is selected again
C7_Witness ==
  /\ lastOp.op = "click" /\ lastOp.multi
  /\ lastOp.before.twice
  /\ lastOp.idx \in AsSet(lastOp.before.prev)
  /\ lastOp.idx \notin AsSet(lastOp.prev)
  /\ Len(lastOp.prev) >= 1
  /\ lastOp.idx \in AsSet(selectedIndices[lastOp.e])

\* the rectangle the last box selection was released with
boxLeft == boxStyle.left.value
boxTop == boxStyle.top.value
boxRight == boxStyle.left.value + boxStyle.width.value
boxBottom == boxStyle.top.value + boxStyle.height.value

\* the projected pixel position of vertex i of mesh e lies in the rectangle
InsideBox(e, i, r) ==
  LET sx == screenX(e, position[e][i], r)
      sy == screenY(e, position[e][i], r)
  IN /\ boxLeft * sx.den <= sx.num /\ sx.num <= boxRight * sx.den
     /\ boxTop * sy.den <= sy.num /\ sy.num <= boxBottom * sy.den

OnEdge(e, i, r) ==
  LET sx == screenX(e, position[e][i], r)
      sy == screenY(e, position[e][i], r)
  IN \/ sx.num = boxLeft * sx.den \/ sx.num = boxRight * sx.den
     \/ sy.num = boxTop * sy.den \/ sy.num = boxBottom * sy.den

\* C8: a box selection released with a valid rectangle sets the selection of
\* every entry to exactly the vertices whose projected pixel position lies in
\* the rectangle, edges included, whatever the entry had selected before.
C8_BoxSelectReplaces ==
  lastOp.op = "boxselect" =>
    \A e \in Meshes :
      /\ AsSet(selectedIndices[e]) = {i \in Verts : InsideBox(e, i, lastOp.r)}
      /\ NoDuplicates(selectedIndices[e])
      /\ getSelected(e) = selectedIndices[e]

\* a release that emptied the selection of an entry with no vertex in the
\* rectangle and selected a vertex lying on an edge of the rectangle in
\* another entry, which lost a vertex it had selected before
C8_Witness ==
  /\ lastOp.op = "boxselect"
  /\ \E e \in Meshes : lastOp.prev[e] /= <<>> /\ selectedIndices[e] = <<>>
  /\ \E e \in Meshes, i \in Verts :
       i \in AsSet(selectedIndices[e]) /\ OnEdge(e, i, lastOp.r)
  /\ \E e \in Meshes :
       /\ selectedIndices[e] /= <<>>
       /\ \E i \in AsSet(lastOp.prev[e]) : i \notin AsSet(selectedIndices[e])

\* C9: a box selection released with a rectangle narrower or lower than 2
\* pixels leaves the selection of every entry unchanged.
C9_SmallBoxKeepsSelection ==
  (/\ lastOp.op \in {"boxabort", "boxselect"}
   /\ (boxStyle.width.value < 2 \/ boxStyle.height.value < 2)) =>
    /\ selectedIndices = lastOp.prev
    /\ selectedRef = lastOp.prev

\* a rectangle 1 pixel wide was released over vertices while something was
\* selected
C9_Witness ==
  /\ lastOp.op = "boxabort"
  /\ boxStyle.width.value = 1
  /\ boxStyle.height.value >= 2
  /\ \E e \in Meshes : selectedIndices[e] /= <<>>
  /\ selectedIndices = lastOp.prev

\* C10: a moveSelected on an entry with an empty selection and proportional
\* editing disabled leaves the position buffer untouched and does not raise
\* the dirty flag of the buffer.
C10_NoOpRule ==
  [][lastOp'.op = "move" =>
       \A e \in Meshes :
         (selectedRef[e] = <<>> /\ ~usesProportional(e)) =>
           /\ position'[e] = position[e]
           /\ needsUpdate'[e] = needsUpdate[e]]_vars

\* C11: while no vertex is selected in any registered entry there is no
\* gizmo, and no beginMove or moveSelected call has just been made on the
\* entries.
C11_NoSelectionNoDrag ==
  (~hasAnySelection) =>
    /\ ~tcMounted
    /\ lastOp.op \notin {"begin", "move"}

\* C12: right after a drag has started with something selected, the pivot
\* recorded at drag start is the mean of the world positions of the vertices
\* selected at that moment, over all registered entries.
C12_PivotIsCentroidAtDragStart ==
  (lastOp.op = "begin" /\ hasAnySelection) =>
    dragStartPivotWorld = computeSelectionCentroidWorld.current

\* the buffer one moveSelected with the last delta gives on the snapshot of
\* entry e under the given options
MoveWith(e, prop, radius, kind) ==
  IF ~prop
    THEN applyNonProportionalMove(snapshot(e), snapshot(e), selectedRef[e],
                                  lastDeltaLocal(e))
    ELSE applyProportionalMove(e, snapshot(e), selectedRef[e], dragPivotLocalRef[e],
                               radius, kind, lastDeltaLocal(e))

\* the options entry e holds from beginMove
captured(e) == dragOptsRef[e].current

\* C13: beginMove captures the proportional flag and the falloff kind of the
\* controller at drag start; toggling proportional editing, or any step other
\* than a drag start or release, leaves the captured options alone, and the
\* moveSelected calls of the drag deform with the captured flag and falloff.
C13_OptionsCapturedAtDragStart ==
  /\ [](lastOp.op = "begin" =>
          \A e \in Meshes :
            /\ ~dragOptsRef[e].null
            /\ captured(e).proportionalEnabled = proportionalEnabled
            /\ captured(e).falloff = falloff)
  /\ [][lastOp'.op \notin {"begin", "end"} => dragOptsRef' = dragOptsRef]_vars
  /\ [][lastOp'.op = "toggle" => position' = position]_vars
  /\ [](Moved =>
          \A e \in Meshes :
            (selStable[e] /\ ~dragOptsRef[e].null) =>
              position[e] = MoveWith(e, captured(e).proportionalEnabled,
                                     captured(e).radiusWorld, captured(e).falloff))

\* proportional editing was toggled during the drag and the moveSelected
\* after it gave another buffer than the flag of the controller would give
C13_Witness ==
  /\ Moved
  /\ \E e \in Meshes :
       /\ selStable[e] /\ ~dragOptsRef[e].null
       /\ captured(e).proportionalEnabled /= proportionalEnabled
       /\ position[e] /= MoveWith(e, proportionalEnabled, captured(e).radiusWorld,
                                  captured(e).falloff)

\* C14 as stated: the moveSelected calls of a proportional drag use the
\* radius the controller has at the time of the call.
C14_RadiusReadLive ==
  Moved =>
    \A e \in Meshes :
      (selStable[e] /\ ~dragOptsRef[e].null /\ captured(e).proportionalEnabled) =>
        position[e] = MoveWith(e, TRUE, radiusWorld, captured(e).falloff)

\* C14, amended: beginMove captures the radius of the controller at drag
\* start, a scroll tick leaves the captured options and the buffers alone,
\* and the moveSelected calls of a proportional drag use the captured radius.
C14_RadiusCapturedAtDragStart ==
  /\ [](lastOp.op = "begin" =>
          \A e \in Meshes :
            ~dragOptsRef[e].null /\ captured(e).radiusWorld = radiusWorld)
  /\ [][lastOp'.op = "wheel" => (dragOptsRef' = dragOptsRef /\ position' = position)]_vars
  /\ [](Moved =>
          \A e \in Meshes :
            (selStable[e] /\ ~dragOptsRef[e].null /\ captured(e).proportionalEnabled) =>
              position[e] = MoveWith(e, TRUE, captured(e).radiusWorld,
                                     captured(e).falloff))

\* the radius was changed by a scroll tick during a proportional drag and the
\* moveSelected after it gave another buffer than the new radius would give
C14_Witness ==
  /\ Moved
  /\ \E e \in Meshes :
       /\ selStable[e] /\ ~dragOptsRef[e].null
       /\ captured(e).proportionalEnabled
       /\ captured(e).radiusWorld /= radiusWorld
       /\ position[e] /= MoveWith(e, TRUE, radiusWorld, captured(e).falloff)

\* the radius a handled scroll tick is claimed to leave
ClaimedRadius(prev, dir) ==
  LET next == IF dir > 0 THEN (prev * 9) \div 10 ELSE (prev * 11) \div 10
  IN IF next < 1 THEN 1
     ELSE IF next > 1000 * Unit THEN 1000 * Unit
     ELSE next

\* C15: the radius lies in [0.001, 1000] and is positive, and a scroll tick
\* the handler takes (tool enabled, proportional editing on) leaves the
\* radius times 0.9 or 1.1, clamped to that range.
C15_RadiusClamped ==
  /\ radiusWorld >= 1 /\ radiusWorld <= 1000 * Unit /\ radiusWorld > 0
  /\ (lastOp.op = "wheel" /\ lastOp.handled) =>
       radiusWorld = ClaimedRadius(lastOp.prev, lastOp.dir)
  /\ (lastOp.op = "wheel" /\ ~lastOp.handled) => radiusWorld = lastOp.prev

\* a tick up at a radius whose 1.1-fold exceeds 1000 left the radius at 1000
C15_Witness ==
  /\ lastOp.op = "wheel" /\ lastOp.handled
  /\ lastOp.dir < 0
  /\ (lastOp.prev * 11) \div 10 > 1000 * Unit
  /\ radiusWorld = 1000 * Unit

UniqueIds ==
  \A i, j \in 1 .. Len(entries) : entries[i].id = entries[j].id => i = j

\* the entries of a registry with another id than id
OtherEntries(list, id) == { list[k] : k \in {n \in 1 .. Len(list) : list[n].id /= id} }

\* C16: the ids of entries() are unique, and after register(e) entries()
\* holds exactly one entry with the id of e, which is e, while the entries
\* with other ids are the ones it held before.
C16_RegisterIdempotentPerId ==
  /\ UniqueIds
  /\ lastOp.op = "register" =>
       /\ Cardinality({k \in 1 .. Len(entries) : entries[k].id = lastOp.id}) = 1
       /\ \E k \in 1 .. Len(entries) :
            entries[k] = [id |-> lastOp.id, owner |-> lastOp.owner]
       /\ OtherEntries(entries, lastOp.id)
            = OtherEntries(MapValues(lastOp.before), lastOp.id)

\* an id was registered again by another instance while an entry with
\* another id was registered
C16_Witness ==
  /\ lastOp.op = "register"
  /\ \E k \in 1 .. Len(lastOp.before) :
       /\ lastOp.before[k].key = lastOp.id
       /\ lastOp.before[k].value.owner /= lastOp.owner
  /\ Len(entries) = 2
  /\ OtherEntries(entries, lastOp.id) /= {}

\* C17: after clearAllSelections (a click that misses every vertex) the
\* selection of every registered entry is empty.
C17_ClearAllSelections ==
  lastOp.op = "missed" =>
    \A e \in entryIds : selectedIndices[e] = <<>> /\ getSelected(e) = <<>>

\* a missed click while every mesh had vertices selected
C17_Witness ==
  /\ lastOp.op = "missed"
  /\ \A e \in Meshes :
       e \in entryIds /\ lastOp.prev[e] /= <<>> /\ selectedIndices[e] = <<>>

\* the exported node of mesh e
Child(e) ==
  lastOp.children[CHOOSE k \in 1 .. Len(lastOp.children) : lastOp.children[k].name = e]

\* C18: the export holds a node for every mesh; for a mesh that is not
\* skinned its vertices are the world transform applied to the local
\* positions and its transform is the identity, for a skinned mesh its
\* vertices are the local positions and its transform is the translation,
\* rotation and scale of the world transform of the mesh.
C18_ExportBakePolicy ==
  lastOp.op = "export" =>
    \A e \in Meshes :
      /\ \E k \in 1 .. Len(lastOp.children) : lastOp.children[k].name = e
      /\ ~Child(e).geometry.null
      /\ IF ~isSkinnedMesh[e]
           THEN /\ \A i \in Verts :
                     Child(e).geometry.current[i]
                       = VAdd(VDiv(position[e][i], MeshInvScale(e)), MeshOffset(e))
                /\ Child(e).position = <<0, 0, 0>>
                /\ Child(e).quaternion = <<0, 0, 0, Unit>>
                /\ Child(e).scale = <<Unit, Unit, Unit>>
           ELSE /\ Child(e).geometry.current = position[e]
                /\ Child(e).position = MeshOffset(e)
                /\ Child(e).quaternion = <<0, 0, 0, Unit>>
                /\ \A a \in 1 .. 3 : Child(e).scale[a] * MeshInvScale(e) = Unit

\* an export after a drag that deformed both meshes, of which the one with
\* the identity transform is not skinned and the scaled and translated one
\* is
C18_Witness ==
  /\ lastOp.op = "export"
  /\ \E e, f \in Meshes :
       /\ isSkinnedMesh[e] /\ MeshOffset(e) /= Zero3 /\ MeshInvScale(e) /= 1
       /\ position[e] /= InitPositions(e)
       /\ ~isSkinnedMesh[f]
       /\ position[f] /= InitPositions(f)

\* C19: a mesh without a position attribute gets no entry from the scene
\* loader, keeps an empty selection under box selection, is left alone by
\* beginMove and moveSelected (no snapshot, no options, no dirty flag, no
\* written position) and has no node in the export; the export has no node
\* for a node that is not a mesh.
C19_NoPositionExcluded ==
  /\ \A e \in Meshes :
       ~hasPosition[e] =>
         /\ ~MapHas(DroppedModel(hasPosition), e)
         /\ selectedIndices[e] = <<>> /\ selectedRef[e] = <<>>
         /\ dragStartPositionsRef[e].null /\ dragOptsRef[e].null
         /\ ~needsUpdate[e]
         /\ position[e] = InitPositions(e)
         /\ lastOp.op = "export" =>
              \A k \in 1 .. Len(lastOp.children) : lastOp.children[k].name /= e
  /\ lastOp.op = "export" =>
       \A k \in 1 .. Len(lastOp.children) : lastOp.children[k].name \in Meshes

\* an export after a box selection and a drag that deformed a mesh, while a
\* mesh without a position attribute had an entry in the registry
C19_Witness ==
  /\ lastOp.op = "export"
  /\ \E e, f \in Meshes :
       /\ ~hasPosition[e] /\ e \in entryIds
       /\ hasPosition[f] /\ position[f] /= InitPositions(f)
       /\ selectedIndices[f] /= <<>>
  /\ Len(lastOp.children) = 1

\* C20: after the pointer or the mode key of a box selection is released no
\* anchor and no base rect are left and the camera controls are enabled;
\* after the gizmo or the mode key of the drag tool is released no entry
\* holds a snapshot or drag options, no drag is active and the camera
\* controls are enabled.
C20_CancellationLeavesNoResidue ==
  /\ (lastOp.op \in {"boxabort", "boxselect"} \/ (lastOp.op = "boxkey" /\ ~keyDownRef)) =>
       startRef.null /\ baseRectRef.null /\ controlsEnabled
  /\ lastOp.op \in {"end", "keyup"} =>
       /\ \A e \in Meshes : dragStartPositionsRef[e].null /\ dragOptsRef[e].null
       /\ ~dragging
       /\ controlsEnabled

\* C21: for every falloff kind falloffFn(0) is 1, falloffFn(1) is 0, and
\* a vertex further from the pivot (inside the radius) never gets a larger
\* weight than a nearer one; every weight lies in [0, 1].
C21_FalloffShape ==
  /\ falloffT = 0 => falloffW = Unit
  /\ falloffT = Unit => falloffW = 0
  /\ falloffW >= 0 /\ falloffW <= Unit
  /\ lastOp.op = "weigh" => falloffW <= lastOp.prev

\* a weight strictly between 0 and 1 that is smaller than the weight of
\* the nearer vertex before it
C21_Witness ==
  /\ lastOp.op = "weigh"
  /\ falloffT > 0 /\ falloffT < Unit
  /\ falloffW > 0 /\ falloffW < lastOp.prev

\* the entry of mesh e is in a proportional drag whose captured radius is 0
zeroRadiusDrag(e) ==
  /\ reached(e)
  /\ usesProportional(e)
  /\ dragOptsRef[e].current.radiusWorld = 0

\* the buffer of mesh e after the non-proportional move with the snapshot,
\* the selection and the delta of the move that is being made
nonProportionalMoveOf(e) ==
  applyNonProportionalMove(position[e], moveStart(e), selectedRef[e],
                           computeDeltaLocal(e, lastDelta'))

\* C22 as stated: every proportional move with radius 0 leaves the buffer
\* the non-proportional move with the same snapshot, selection and delta
\* leaves.
C22_RadiusZeroIsNonProportional ==
  [][lastOp'.op = "move" =>
       \A e \in Meshes : zeroRadiusDrag(e) => position'[e] = nonProportionalMoveOf(e)]_vars

\* C22: a proportional move with radius 0 on an entry whose selection has
\* not changed since its snapshot was taken leaves the buffer the
\* non-proportional move with the same snapshot, selection and delta leaves;
\* in every proportional move with radius 0 every unselected vertex is on
\* its snapshot position.
C22_RadiusZeroDegenerates ==
  [][lastOp'.op = "move" =>
       \A e \in Meshes :
         zeroRadiusDrag(e) =>
           /\ selStable[e] => position'[e] = nonProportionalMoveOf(e)
           /\ \A i \in Verts :
                ~Includes(selectedRef[e], i) => position'[e][i] = moveStart(e)[i]]_vars

\* a proportional move with radius 0 has moved the selected vertices of an
\* entry whose selection is the one of the drag start and which has
\* unselected vertices, one of them on the pivot
C22_Witness ==
  /\ lastOp.op = "move"
  /\ \E e \in Meshes :
       /\ zeroRadiusDrag(e)
       /\ selStable[e]
       /\ selectedRef[e] /= <<>>
       /\ position[e] /= snapshot(e)
  /\ \E e \in Meshes, i \in Verts :
       /\ zeroRadiusDrag(e)
       /\ ~Includes(selectedRef[e], i)
       /\ snapshot(e)[i] = dragPivotLocalRef[e]

\* C23: whenever the editor has written the buffer of a mesh, its bounding
\* box, bounding sphere and vertex normals are the ones of the current
\* buffer: moveSelected recomputes all three after its write, and endMove
\* recomputes the normals.
C23_DerivedDataFollowsBuffer ==
  /\ \A e \in Meshes :
       /\ ~boundingBox[e].null =>
            boundingBox[e].current = computeBoundingBox(position[e])
       /\ ~boundingSphere[e].null =>
            boundingSphere[e].current = computeBoundingSphere(position[e])
       /\ ~normals[e].null =>
            normals[e].current = computeVertexNormals(position[e])
       /\ position[e] /= InitPositions(e) =>
            ~boundingBox[e].null /\ ~boundingSphere[e].null /\ ~normals[e].null
  /\ lastOp.op = "move" =>
       \A e \in Meshes :
         reached(e) =>
           ~boundingBox[e].null /\ ~boundingSphere[e].null /\ ~normals[e].null
  /\ lastOp.op = "end" => \A e \in Meshes : reached(e) => ~normals[e].null

\* a move has changed the bounding box and the normals of a mesh
C23_Witness ==
  /\ lastOp.op = "move"
  /\ \E e \in Meshes :
       /\ ~dragStartPositionsRef[e].null
       /\ boundingBox[e] /= Ref(computeBoundingBox(snapshot(e)))
       /\ normals[e] /= Ref(computeVertexNormals(snapshot(e)))

\* C24: the selection of every entry, as state and as getSelected() returns
\* it, has no index twice and holds only indices of vertices of the buffer.
C24_SelectionIsSetOfValidIndices ==
  \A e \in Meshes :
    /\ NoDuplicates(selectedIndices[e])
    /\ NoDuplicates(getSelected(e))
    /\ AsSet(selectedIndices[e]) \subseteq DOMAIN position[e]
    /\ AsSet(getSelected(e)) \subseteq DOMAIN position[e]

\* a shift-click has added a vertex to a selection that a box selection or
\* a click had made
C24_Witness ==
  /\ lastOp.op = "click"
  /\ lastOp.multi
  /\ lastOp.prev /= <<>>
  /\ ~Includes(lastOp.prev, lastOp.idx)
  /\ selectedIndices[lastOp.e] = Append(lastOp.prev, lastOp.idx)

\* the selected vertices of every entry in the drag are at their snapshot
\* position plus the local image of the pivot's offset from its drag start
followsPivot ==
  \A e \in Meshes :
    (reached(e) /\ ~dragStartPositionsRef[e].null) =>
      \A i \in AsSet(getSelected(e)) :
        position[e][i]
          = VAdd(snapshot(e)[i], computeDeltaLocal(e, VSub(pivot, dragStartPivotWorld)))

\* C25: after every pivot position the gizmo reports during a drag, also
\* one that is the drag-start position again, the selected vertices of
\* every entry are at their snapshot position plus the local image of
\* pivot - pivot at drag start.
C25_EveryPivotUpdateMoves ==
  lastOp.op \in {"move", "still"} => followsPivot

\* C26: a drag start makes no beginMove call on an entry whose selection is
\* empty (its snapshot, local pivot and drag options stay as they are), and
\* a moveSelected call leaves the position buffer of an entry whose
\* selection is empty as it is.
C26_EmptyEntriesTakeNoPart ==
  [][/\ lastOp'.op = "begin" =>
          \A e \in Meshes :
            getSelected(e) = <<>> =>
              /\ dragStartPositionsRef'[e] = dragStartPositionsRef[e]
              /\ dragPivotLocalRef'[e] = dragPivotLocalRef[e]
              /\ dragOptsRef'[e] = dragOptsRef[e]
     /\ lastOp'.op = "move" =>
          \A e \in Meshes : getSelected(e) = <<>> => position'[e] = position[e]]_vars

\* C28: a call of the unregister function that register returned to an
\* instance removes the entry of that instance and no other: every entry
\* that another instance registered, also one with the same id, is still
\* registered afterwards.
C28_UnregisterRemovesOwnRegistration ==
  lastOp.op = "unregister" =>
    /\ \A j \in 1 .. Len(entries) : entries[j].owner /= lastOp.owner
    /\ \A k \in 1 .. Len(lastOp.before) :
         lastOp.before[k].value.owner /= lastOp.owner =>
           \E j \in 1 .. Len(entries) : entries[j] = lastOp.before[k].value

\* C27: a moveSelected on an entry without a snapshot stores a snapshot that
\* equals the buffer at that moment and makes a non-proportional move
\* relative to it; a moveSelected on an entry with a snapshot keeps that
\* snapshot; endMove clears it.
C27_MissingSnapshotIsCreated ==
  [][/\ lastOp'.op = "move" =>
          \A e \in Meshes :
            reached(e) =>
              IF dragStartPositionsRef[e].null
                THEN /\ dragStartPositionsRef'[e] = Ref(position[e])
                     /\ position'[e]
                          = applyNonProportionalMove(position[e], position[e],
                              getSelected(e), computeDeltaLocal(e, lastDelta'))
                ELSE dragStartPositionsRef'[e] = dragStartPositionsRef[e]
     /\ lastOp'.op = "end" =>
          \A e \in Meshes : e \in entryIds => dragStartPositionsRef'[e].null]_vars

\* an entry that registered after the drag start, so that beginMove did not
\* run for it, has been moved twice: its selected vertices are at the
\* snapshot the first move made, plus the delta of the second move
C27_Witness ==
  /\ lastOp.op = "move"
  /\ moves = 2
  /\ \E e \in Meshes :
       /\ dragOptsRef[e].null
       /\ ~dragStartPositionsRef[e].null
       /\ getSelected(e) /= <<>>
       /\ selStable[e]
       /\ snapshot(e) /= InitPositions(e)
       /\ \A i \in AsSet(getSelected(e)) :
            position[e][i] = VAdd(snapshot(e)[i], lastDeltaLocal(e))
       /\ \E f \in Meshes : ~dragOptsRef[f].null /\ position[f] /= snapshot(f)

\* C29: beginMove and endMove leave every vertex position as it is, and the
\* snapshot beginMove takes is the buffer as the drag before left it; a
\* drag operation leaves the buffer, the snapshot and the options of a mesh
\* whose entry it is not called on as they are; beginMove, moveSelected and
\* endMove leave the number of vertices and every selection as they are.
C29_DragFrameConditions ==
  [][lastOp'.op \in {"begin", "move", "end"} =>
       /\ lastOp'.op /= "move" => position' = position
       /\ lastOp'.op = "begin" =>
            \A e \in Meshes : reached(e) => dragStartPositionsRef'[e] = Ref(position[e])
       /\ \A e \in Meshes :
            e \notin entryIds =>
              /\ position'[e] = position[e]
              /\ dragStartPositionsRef'[e] = dragStartPositionsRef[e]
              /\ dragOptsRef'[e] = dragOptsRef[e]
       /\ \A e \in Meshes : DOMAIN position'[e] = DOMAIN position[e]
       /\ selectedIndices' = selectedIndices
       /\ selectedRef' = selectedRef]_vars

\* a drag has started on a mesh that a drag before had deformed, while
\* another mesh has no entry: the snapshot is the deformed buffer
C29_Witness ==
  /\ lastOp.op = "begin"
  /\ \E e \in Meshes :
       /\ reached(e)
       /\ position[e] /= InitPositions(e)
       /\ dragStartPositionsRef[e] = Ref(position[e])
       /\ getSelected(e) /= <<>>
  /\ \E f \in Meshes : f \notin entryIds

\* the sum of the world positions of the vertices in the selection state of
\* the meshes in S, and their number
RECURSIVE SumState(_)
SumState(S) ==
  IF S = {} THEN [sum |-> Zero3, n |-> 0]
  ELSE LET e == CHOOSE x \in S : TRUE
           rest == SumState(S \ {e})
       IN [sum |-> VAdd(SumWorld(e, selectedIndices[e]), rest.sum),
           n |-> Len(selectedIndices[e]) + rest.n]

====
